---- MODULE Spec2Model ----
(***************************************************************************)
(* A model of attpc::cleaning::HoughSpiralCleaner                          *)
(* (src/src/HoughSpiralCleaner.cpp).                                       *)
(*                                                                         *)
(* Three specifications:                                                   *)
(*   SpecPass      the constructor, findArcLength, findHoughSpace,         *)
(*                 findMaxAngleBin, findMaxAngleSlice                      *)
(*   SpecPeak      findPeakRadiusBins                                      *)
(*   SpecClassify  classifyPoints                                          *)
(*                                                                         *)
(* Doubles are modelled as tagged values: a finite value, +-infinity or    *)
(* NaN, with the IEEE rules for division by zero, for comparisons with NaN *)
(* and for arithmetic on NaN and infinity.  Finite values are exact        *)
(* rationals over a denominator that is fixed during a run; rounding is    *)
(* not modelled.                                                           *)
(***************************************************************************)
EXTENDS Integers, Sequences, FiniteSets, TLC

\* ------------------------------------------------------------------ bounds

\* classifyPoints: at most MaxPts points and MaxLines candidate radii
MaxPts == 3
MaxLines == 2

\* a pass: at most MaxPassPts points with coordinates in 0..MaxCoord, an
\* accumulator of at most MaxBins x MaxBins bins holding weights up to
\* MaxWeight, and a configuration with numAngleBinsToReduce up to MaxReduce
\* and houghSpaceSliceSize up to MaxSliceSize
MaxPassPts == 2
MaxCoord == 1
MaxBins == 2
MaxWeight == 1
MaxReduce == 5
MaxSliceSize == 1

\* findPeakRadiusBins: a slice of at most MaxSliceBins bins holding values
\* up to MaxSliceVal, and peakWidth up to MaxPeakWidth
MaxSliceBins == 4
MaxSliceVal == 2
MaxPeakWidth == 2

\* ------------------------------------------------------- floating point

Fin(n) == [k |-> "fin", v |-> n]
Inf == [k |-> "inf", v |-> 1]
NegInf == [k |-> "inf", v |-> -1]
NaN == [k |-> "nan", v |-> 0]

IsNaN(a) == a.k = "nan"
IsFinite(a) == a.k = "fin"

\* a < b on doubles: false whenever either side is NaN
Lt(a, b) ==
    /\ ~IsNaN(a)
    /\ ~IsNaN(b)
    /\ \/ a.k = "fin" /\ b.k = "fin" /\ a.v < b.v
       \/ a.k = "fin" /\ b.k = "inf" /\ b.v > 0
       \/ a.k = "inf" /\ a.v < 0 /\ b.k = "fin"
       \/ a.k = "inf" /\ b.k = "inf" /\ a.v < b.v

AbsInt(n) == IF n < 0 THEN -n ELSE n

\* ------------------------------------------------------------ variables

VARIABLES
    \* the configuration handed to the constructor, and the members it sets
    config, numAngleBinsToReduce, houghSpaceSliceSize, peakWidth,
    minPointsPerLine, numBins,
    \* one pass up to the angle slice: inputs, results, position
    center, houghData, houghSpace, maxAngleBin, belowBegin, sliceStart,
    sliceWidth, angleSlice, stage,
    \* the points (rows x, y, z) and their arc lengths
    xyz, arclens,
    \* findPeakRadiusBins: argument, locals, position
    houghSlice, maxLocs, pkNext, peakCtrs, windows, pcPeak,
    \* classifyPoints: arguments
    maxAngle, radii,
    \* classifyPoints: locals, position
    labels, distancesToNearestLine, pointsPerLine, wordBeforeCounts,
    lineIdx, pointIdx, pc,
    \* history: the indices pointsPerLine was subscripted with, and the
    \* labels as they were when the assignment loop ended
    countIdxUsed, labelsAssigned

cleanerVars ==
    <<config, numAngleBinsToReduce, houghSpaceSliceSize, peakWidth,
      minPointsPerLine, numBins>>

passVars ==
    <<center, houghData, houghSpace, maxAngleBin, belowBegin, sliceStart,
      sliceWidth, angleSlice, stage>>

pointVars == <<xyz, arclens>>

peakVars == <<houghSlice, maxLocs, pkNext, peakCtrs, windows, pcPeak>>

classifyVars ==
    <<maxAngle, radii, labels, distancesToNearestLine, pointsPerLine,
      wordBeforeCounts, lineIdx, pointIdx, pc, countIdxUsed, labelsAssigned>>

vars == <<cleanerVars, passVars, pointVars, peakVars, classifyVars>>

\* the variables of the stages a specification does not run
NoPass ==
    /\ center = <<>>
    /\ houghData = <<>>
    /\ houghSpace = <<>>
    /\ maxAngleBin = 0
    /\ belowBegin = 0
    /\ sliceStart = 0
    /\ sliceWidth = 0
    /\ angleSlice = <<>>
    /\ stage = "none"

NoPeaks ==
    /\ houghSlice = <<>>
    /\ maxLocs = <<>>
    /\ pkNext = 0
    /\ peakCtrs = <<>>
    /\ windows = <<>>
    /\ pcPeak = "none"

NoClassify ==
    /\ maxAngle = <<>>
    /\ radii = <<>>
    /\ labels = <<>>
    /\ distancesToNearestLine = <<>>
    /\ pointsPerLine = <<>>
    /\ wordBeforeCounts = 0
    /\ lineIdx = 0
    /\ pointIdx = 0
    /\ pc = "none"
    /\ countIdxUsed = {}
    /\ labelsAssigned = <<>>


\* ================================== constructor, findArcLength, findHoughSpace,
\* ================================== findMaxAngleBin, findMaxAngleSlice

RECURSIVE SumSeq(_)
SumSeq(q) == IF q = <<>> THEN 0 ELSE q[1] + SumSeq(Tail(q))

RECURSIVE SumOver(_, _)
SumOver(f, S) ==
    IF S = {} THEN 0
    ELSE LET a == CHOOSE x \in S : TRUE
         IN  f[a] + SumOver(f, S \ {a})

\* integer division as C++ does it, rounding towards zero
TruncDiv(a, b) ==
    IF a >= 0 THEN a \div b ELSE -((-a) \div b)

\* what a word of memory outside an array may hold (a sample)
GarbageWords == {-8, 0, 8}

Configs ==
    [numAngleBinsToReduce : 1..MaxReduce,
     houghSpaceSliceSize : 0..MaxSliceSize,
     peakWidth : {1},
     minPointsPerLine : {1},
     linearHoughNumBins : 1..MaxBins]

InitPass ==
    /\ config \in Configs
    /\ numAngleBinsToReduce = 0
    /\ houghSpaceSliceSize = 0
    /\ peakWidth = 0
    /\ minPointsPerLine = 0
    /\ numBins = 0
    /\ xyz \in UNION { [1..n -> (0..MaxCoord) \X (0..MaxCoord) \X {0}] :
                          n \in 0..MaxPassPts }
    /\ center \in (0..MaxCoord) \X (0..MaxCoord)
    /\ arclens = <<>>
    /\ houghData = <<>>
    /\ houghSpace = <<>>
    /\ maxAngleBin = 0
    /\ belowBegin = 0
    /\ sliceStart = 0
    /\ sliceWidth = 0
    /\ angleSlice = <<>>
    /\ stage = "new"
    /\ NoPeaks
    /\ NoClassify

\* HoughSpiralCleaner::HoughSpiralCleaner: the members are copied from the
\* configuration as they are; no configuration is refused
Construct ==
    /\ stage = "new"
    /\ numAngleBinsToReduce' = config.numAngleBinsToReduce
    /\ houghSpaceSliceSize' = config.houghSpaceSliceSize
    /\ peakWidth' = config.peakWidth
    /\ minPointsPerLine' = config.minPointsPerLine
    /\ numBins' = config.linearHoughNumBins
    /\ stage' = "constructed"
    /\ UNCHANGED <<config, center, houghData, houghSpace, maxAngleBin,
                   belowBegin, sliceStart, sliceWidth, angleSlice, pointVars,
                   peakVars, classifyVars>>

\* yOffset / xOffset on doubles
DivOffsets(yOffset, xOffset) ==
    IF xOffset # 0 THEN Fin(<<yOffset, xOffset>>)
    ELSE IF yOffset = 0 THEN NaN
    ELSE IF yOffset > 0 THEN Inf ELSE NegInf

\* Eigen::atan: NaN for NaN, +-pi/2 for +-infinity; kept symbolic
Atan(q) == IF IsNaN(q) THEN NaN ELSE Fin([atan |-> q])

\* rads * thetas, with rads = sqrt(radSquared) finite; kept symbolic
TimesRad(radSquared, theta) ==
    IF IsNaN(theta) THEN NaN
    ELSE Fin([radSquared |-> radSquared, theta |-> theta.v])

\* findArcLength at one row of xy
ArcLengthOf(x, y, c) ==
    LET xOffset == x - c[1]
        yOffset == y - c[2]
        rads == xOffset * xOffset + yOffset * yOffset
        thetas == Atan(DivOffsets(yOffset, xOffset))
    IN  TimesRad(rads, thetas)

\* findArcLength(xy, center): there is no branch that fails or drops a row
FindArcLength ==
    /\ stage = "constructed"
    /\ arclens' = [i \in DOMAIN xyz |-> ArcLengthOf(xyz[i][1], xyz[i][2], center)]
    /\ stage' = "arcDone"
    /\ UNCHANGED <<cleanerVars, center, houghData, houghSpace, maxAngleBin,
                   belowBegin, sliceStart, sliceWidth, angleSlice, xyz,
                   peakVars, classifyVars>>

Bins == (0..(numBins - 1)) \X (0..(numBins - 1))

\* linHough.findHoughSpace(houghData): some numBins x numBins accumulator
\* of non-negative weights
LinHoughSpaces == [Bins -> 0..MaxWeight]

\* findHoughSpace(zs, arclens)
FindHoughSpace ==
    /\ stage = "arcDone"
    /\ Len(xyz) = Len(arclens)
    /\ houghData' = [i \in DOMAIN xyz |-> <<xyz[i][3], arclens[i]>>]
    /\ houghSpace' \in LinHoughSpaces
    /\ stage' = "houghDone"
    /\ UNCHANGED <<cleanerVars, center, maxAngleBin, belowBegin, sliceStart,
                   sliceWidth, angleSlice, pointVars, peakVars, classifyVars>>

\* the sets of bins that std::sort can leave in the last n places of
\* indices: no bin outside the set has a larger value than one inside
LastSorted(n) ==
    { T \in SUBSET Bins :
        /\ Cardinality(T) = n
        /\ \A a \in T : \A b \in Bins \ T : houghSpace[b] <= houghSpace[a] }

\* meanBin(0): the sum of the angle bins, divided by numAngleBinsToReduce
MeanAngleBin(binTotal0) == TruncDiv(binTotal0, numAngleBinsToReduce)

\* findMaxAngleBin(houghSpace).  indices.end() - numAngleBinsToReduce lies
\* before indices.begin() when numAngleBinsToReduce > numBins * numBins:
\* std::accumulate then also reads that many elements in front of the array.
FindMaxAngleBin ==
    /\ stage = "houghDone"
    /\ LET size == numBins * numBins
           below == IF numAngleBinsToReduce > size
                    THEN numAngleBinsToReduce - size ELSE 0
       IN  /\ belowBegin' = below
           /\ \E T \in LastSorted(numAngleBinsToReduce - below) :
              \E g \in [1..below -> GarbageWords] :
                maxAngleBin' =
                    MeanAngleBin(SumOver([b \in Bins |-> b[1]], T) + SumSeq(g))
    /\ stage' = "angleDone"
    /\ UNCHANGED <<cleanerVars, center, houghData, houghSpace, sliceStart,
                   sliceWidth, angleSlice, pointVars, peakVars, classifyVars>>

\* houghSpace.getAngularSlice(start, width): rows start .. start+width-1 of
\* the accumulator; a row that is no row of it holds foreign memory
AngularSliceRows(start, width, foreign) ==
    [r \in 1..width |->
        [j \in 0..(numBins - 1) |->
            IF start + r - 1 \in 0..(numBins - 1)
            THEN houghSpace[<<start + r - 1, j>>]
            ELSE foreign[r]]]

\* findMaxAngleSlice(houghSpace, maxAngleBin): the block asked for is not
\* checked against the accumulator; Eigen's assertion aborts a debug build
\* that asks for rows outside it
FindMaxAngleSlice ==
    /\ stage = "angleDone"
    /\ LET start == maxAngleBin - houghSpaceSliceSize
           width == 2 * houghSpaceSliceSize
       IN  /\ sliceStart' = start
           /\ sliceWidth' = width
           /\ \/ /\ start < 0 \/ start + width > numBins
                 /\ stage' = "aborted"
                 /\ UNCHANGED angleSlice
              \/ /\ \E foreign \in [1..width -> GarbageWords] :
                      LET block == AngularSliceRows(start, width, foreign)
                      IN  angleSlice' =
                            [j \in 0..(numBins - 1) |->
                                SumSeq([r \in 1..width |-> block[r][j]])]
                 /\ stage' = "sliceDone"
    /\ UNCHANGED <<cleanerVars, center, houghData, houghSpace, maxAngleBin,
                   belowBegin, pointVars, peakVars, classifyVars>>

NextPass ==
    \/ Construct
    \/ FindArcLength
    \/ FindHoughSpace
    \/ FindMaxAngleBin
    \/ FindMaxAngleSlice

SpecPass == InitPass /\ [][NextPass]_vars

\* ------------------------------------------------------ claims on a pass

\* C4 (as claimed): findMaxAngleBin averages only elements of the list of
\* numBins * numBins indices, and returns an angle bin in [0, numBins).
C4_AngleBinInRange ==
    stage = "angleDone" =>
        /\ belowBegin = 0
        /\ 0 <= maxAngleBin
        /\ maxAngleBin < numBins

\* C6 (as claimed): findArcLength returns no NaN arc length (it fails or
\* leaves the point out), so none is handed on to findHoughSpace.
C6_NoUndefinedArcLength ==
    /\ stage \in {"arcDone", "houghDone"} =>
           \A i \in DOMAIN arclens : ~IsNaN(arclens[i])
    /\ stage = "houghDone" =>
           \A i \in DOMAIN houghData : ~IsNaN(houghData[i][2])

\* C10 (as claimed): for a constructed cleaner and a dominant angle bin in
\* [0, numBins), the band of angle bins findMaxAngleSlice asks for lies in
\* [0, numBins).
C10_SliceBandInRange ==
    (stage \in {"sliceDone", "aborted"} /\ maxAngleBin \in 0..(numBins - 1)) =>
        /\ 0 <= sliceStart
        /\ sliceStart + sliceWidth <= numBins


\* ==================================================== findPeakRadiusBins

MaxOf(a, b) == IF a >= b THEN a ELSE b

SliceRows == Len(houghSlice)

\* the bins of a slice that no neighbouring bin exceeds
LocalMaxima(slice) ==
    { i \in 0..(Len(slice) - 1) :
        /\ i > 0 => slice[i] <= slice[i + 1]
        /\ i < Len(slice) - 1 => slice[i + 2] <= slice[i + 1] }

\* the largest of the candidates, the first of them among equals
Largest(slice, cand) ==
    CHOOSE i \in cand :
        \A j \in cand :
            \/ slice[j + 1] < slice[i + 1]
            \/ slice[j + 1] = slice[i + 1] /\ i <= j

RECURSIVE TakeLargest(_, _, _)
TakeLargest(slice, cand, n) ==
    IF n = 0 \/ cand = {} THEN <<>>
    ELSE LET i == Largest(slice, cand)
         IN  <<i>> \o TakeLargest(slice, cand \ {i}, n - 1)

\* findPeakLocations(houghSlice, n): the bins of the n largest local
\* maxima, fewer if there are fewer
findPeakLocations(slice, n) == TakeLargest(slice, LocalMaxima(slice), n)

\* houghSlice is indexed from 1 here: bin b is houghSlice[b + 1]
InitPeak ==
    /\ houghSlice \in UNION { [1..n -> 0..MaxSliceVal] : n \in 1..MaxSliceBins }
    /\ config = <<>>
    /\ numAngleBinsToReduce = 0
    /\ houghSpaceSliceSize = 0
    /\ peakWidth \in 0..MaxPeakWidth
    /\ minPointsPerLine = 0
    /\ numBins = 0
    /\ maxLocs = <<>>
    /\ pkNext = 0
    /\ peakCtrs = <<>>
    /\ windows = <<>>
    /\ pcPeak = "locate"
    /\ xyz = <<>>
    /\ arclens = <<>>
    /\ NoPass
    /\ NoClassify

\* line 82
LocatePeaks ==
    /\ pcPeak = "locate"
    /\ maxLocs' = findPeakLocations(houghSlice, 2)
    /\ pcPeak' = "loop"
    /\ UNCHANGED <<houghSlice, pkNext, peakCtrs, windows, cleanerVars,
                   passVars, pointVars, classifyVars>>

\* lines 86-87
FirstPt(pkIdx) == MaxOf(pkIdx - peakWidth, 0)
LastPt(pkIdx) == MaxOf(pkIdx + peakWidth, SliceRows - 1)

\* positions.dot(values) / values.sum() on doubles
CtrOfGrav(dot, total) ==
    IF total # 0 THEN Fin(<<dot, total>>)
    ELSE IF dot = 0 THEN NaN
    ELSE IF dot > 0 THEN Inf ELSE NegInf

\* one iteration of the loop over maxLocs, lines 85-94.  A segment that
\* ends past the last bin is out of bounds: Eigen's assertion aborts a
\* debug build, a release build reads the memory behind the slice.
PeakStep ==
    /\ pcPeak = "loop"
    /\ pkNext < Len(maxLocs)
    /\ LET pkIdx == maxLocs[pkNext + 1]
           firstPt == FirstPt(pkIdx)
           lastPt == LastPt(pkIdx)
       IN  \/ /\ lastPt > SliceRows - 1
              /\ pcPeak' = "aborted"
              /\ windows' = Append(windows,
                    [pk |-> pkIdx, first |-> firstPt, last |-> lastPt,
                     total |-> 0])
              /\ UNCHANGED <<pkNext, peakCtrs>>
           \/ \E foreign \in [SliceRows..lastPt -> GarbageWords] :
                LET values == [i \in firstPt..lastPt |->
                                  IF i < SliceRows THEN houghSlice[i + 1]
                                  ELSE foreign[i]]
                    dot == SumOver([i \in firstPt..lastPt |-> i * values[i]],
                                   firstPt..lastPt)
                    total == SumOver(values, firstPt..lastPt)
                IN  /\ peakCtrs' = Append(peakCtrs, CtrOfGrav(dot, total))
                    /\ windows' = Append(windows,
                          [pk |-> pkIdx, first |-> firstPt, last |-> lastPt,
                           total |-> total])
                    /\ pkNext' = pkNext + 1
                    /\ pcPeak' = pcPeak
    /\ UNCHANGED <<houghSlice, maxLocs, cleanerVars, passVars, pointVars,
                   classifyVars>>

\* return peakCtrs, line 96
ReturnPeaks ==
    /\ pcPeak = "loop"
    /\ pkNext = Len(maxLocs)
    /\ pcPeak' = "returned"
    /\ UNCHANGED <<houghSlice, maxLocs, pkNext, peakCtrs, windows,
                   cleanerVars, passVars, pointVars, classifyVars>>

NextPeak ==
    \/ LocatePeaks
    \/ PeakStep
    \/ ReturnPeaks

SpecPeak == InitPeak /\ [][NextPeak]_vars

\* ------------------------------------------- claims on findPeakRadiusBins

\* C5 (as claimed): a peak whose window sums to zero adds no entry to the
\* returned list, and no returned entry is NaN.  Stated for the calls all of
\* whose windows lie inside the slice, so that no foreign memory is read.
C5_ZeroWindowRejected ==
    (pcPeak = "returned" /\ \A i \in DOMAIN windows : windows[i].last < SliceRows) =>
        /\ \A i \in DOMAIN peakCtrs : ~IsNaN(peakCtrs[i])
        /\ Len(peakCtrs) =
              Cardinality({i \in DOMAIN windows : windows[i].total # 0})

MinOf(a, b) == IF a <= b THEN a ELSE b

\* C9 (as claimed): the window of a peak at bin p is
\* [max(p - peakWidth, 0), min(p + peakWidth, B - 1)]: inside the slice,
\* and of at most 2 * peakWidth + 1 bins.
C9_WindowInsideSlice ==
    \A i \in DOMAIN windows :
        LET w == windows[i]
        IN  /\ w.first = MaxOf(w.pk - peakWidth, 0)
            /\ w.last = MinOf(w.pk + peakWidth, SliceRows - 1)
            /\ 0 <= w.first
            /\ w.last <= SliceRows - 1
            /\ w.last - w.first + 1 <= 2 * peakWidth + 1

\* ======================================================== classifyPoints

\* sample inputs: depths (xyz.col(2), the only column read), arc lengths (possibly NaN, as
\* findArcLength can return), radii, and angles given by (cos, sin) as
\* fractions over den: 0, pi/2 and atan(4/3)
Depths == {0, 1}
ArcLens == {Fin(0), Fin(1), NaN}
RadiusVals == {0, 1, 2}
Angles ==
    { [cos |-> 1, sin |-> 0, den |-> 1],
      [cos |-> 0, sin |-> 1, den |-> 1],
      [cos |-> 3, sin |-> 4, den |-> 5] }

numLinesFound == Len(radii)
numPts == Len(xyz)

\* (rad - x * cos(theta)) / sin(theta); a finite result is a numerator over
\* the denominator theta.sin, a division by zero gives +-inf or NaN
houghLineFunc(x, rad, theta) ==
    LET num == rad * theta.den - x * theta.cos
    IN  IF theta.sin # 0 THEN Fin(num)
        ELSE IF num = 0 THEN NaN
        ELSE IF num > 0 THEN Inf ELSE NegInf

\* Eigen::abs(houghLineFunc(xyz.col(2), rad, maxAngle) - arclens) at one point
\* for line l (counted from 0, as lineIdx is) and point p (counted from 1)
LineDist(l, p) ==
    LET h == houghLineFunc(xyz[p][3], radii[l + 1], maxAngle)
        a == arclens[p]
    IN  IF IsNaN(h) \/ IsNaN(a) THEN NaN
        ELSE IF h.k = "inf" THEN Inf
        ELSE Fin(AbsInt(h.v - a.v * maxAngle.sin))

\* the test of line 123, newDist < oldDist
IsBetter_NonStrict(newDist, oldDist) ==
    Lt(newDist, oldDist) \/ (~IsNaN(newDist) /\ newDist = oldDist)
IsBetter(newDist, oldDist) == Lt(newDist, oldDist)

\* lines 126-127 on the elements of pointsPerLine that exist: an index
\* outside 0..numLinesFound-1 is no element of the array
UpdateCounts_NoDecrement(counts, oldLineIdx, newLineIdx) ==
    [l \in DOMAIN counts |->
        IF l = newLineIdx THEN counts[l] + 1 ELSE counts[l]]
UpdateCounts(counts, oldLineIdx, newLineIdx) ==
    [l \in DOMAIN counts |->
        counts[l] - (IF l = oldLineIdx THEN 1 ELSE 0)
                  + (IF l = newLineIdx THEN 1 ELSE 0)]

\* the test of line 137
TooFewPoints_OrEqual(count) == count <= minPointsPerLine
TooFewPoints(count) == count < minPointsPerLine

\* point lists up to permutation: classifyPoints treats every point alike
PointLe(a, b) ==
    \/ a[1] < b[1]
    \/ a[1] = b[1] /\ (a[2].k = "nan" \/ (b[2].k = "fin" /\ a[2].v <= b[2].v))

PointLists ==
    { s \in UNION { [1..n -> Depths \X ArcLens] : n \in 0..MaxPts } :
        \A i \in 1..(Len(s) - 1) : PointLe(s[i], s[i + 1]) }

InitClassify ==
    /\ \E pts \in PointLists :
        /\ xyz = [i \in 1..Len(pts) |-> <<0, 0, pts[i][1]>>]
        /\ arclens = [i \in 1..Len(pts) |-> pts[i][2]]
    /\ maxAngle \in Angles
    /\ radii \in UNION { [1..n -> RadiusVals] : n \in 0..MaxLines }
    /\ config = <<>>
    /\ numAngleBinsToReduce = 0
    /\ houghSpaceSliceSize = 0
    /\ peakWidth = 0
    /\ minPointsPerLine \in 0..MaxPts
    /\ numBins = 0
    /\ NoPass
    /\ NoPeaks
    \* HoughSpiralCleanerResult result {numPts}; pointsPerLine = Zero
    /\ labels = [i \in 1..Len(xyz) |-> -1]
    /\ distancesToNearestLine = [i \in 1..Len(xyz) |-> Inf]
    /\ pointsPerLine = [l \in 0..(Len(radii) - 1) |-> 0]
    /\ wordBeforeCounts = 0
    /\ lineIdx = 0
    /\ pointIdx = 0
    /\ pc = "assign"
    /\ countIdxUsed = {}
    /\ labelsAssigned = <<>>

\* one iteration of the loop over points, lines 120-132.  Points are
\* numbered from 1 here, so pointIdx counts the points already visited.
\* --pointsPerLine(-1) is out of bounds: Eigen's assertion aborts a debug
\* build, a release build decrements the word in front of the array.
AssignPoint ==
    /\ pc = "assign"
    /\ lineIdx < numLinesFound
    /\ pointIdx < numPts
    /\ LET p == pointIdx + 1
           newDist == LineDist(lineIdx, p)
           oldDist == distancesToNearestLine[p]
           oldLineIdx == labels[p]
       IN  IF IsBetter(newDist, oldDist)
           THEN /\ countIdxUsed' = countIdxUsed \cup {oldLineIdx, lineIdx}
                /\ \/ /\ oldLineIdx \notin DOMAIN pointsPerLine
                      /\ pc' = "aborted"
                      /\ UNCHANGED <<labels, distancesToNearestLine,
                                     pointsPerLine, wordBeforeCounts, pointIdx>>
                   \/ /\ pointsPerLine' =
                            UpdateCounts(pointsPerLine, oldLineIdx, lineIdx)
                      /\ wordBeforeCounts' =
                            IF oldLineIdx = -1 THEN wordBeforeCounts - 1
                            ELSE wordBeforeCounts
                      /\ labels' = [labels EXCEPT ![p] = lineIdx]
                      /\ distancesToNearestLine' =
                            [distancesToNearestLine EXCEPT ![p] = newDist]
                      /\ pointIdx' = pointIdx + 1
                      /\ pc' = pc
           ELSE /\ pointIdx' = pointIdx + 1
                /\ UNCHANGED <<labels, distancesToNearestLine, pointsPerLine,
                               wordBeforeCounts, pc, countIdxUsed>>
    /\ UNCHANGED <<cleanerVars, passVars, pointVars, peakVars, maxAngle, radii,
                   lineIdx, labelsAssigned>>

\* ++lineIdx of the loop over lines, line 114
NextLine ==
    /\ pc = "assign"
    /\ lineIdx < numLinesFound
    /\ pointIdx = numPts
    /\ lineIdx' = lineIdx + 1
    /\ pointIdx' = 0
    /\ UNCHANGED <<cleanerVars, passVars, pointVars, peakVars, maxAngle, radii, labels,
                   distancesToNearestLine, pointsPerLine, wordBeforeCounts,
                   pc, countIdxUsed, labelsAssigned>>

\* the loop over lines ends, the elimination loop begins (line 136)
EndAssign ==
    /\ pc = "assign"
    /\ lineIdx = numLinesFound
    /\ pc' = "eliminate"
    /\ lineIdx' = 0
    /\ labelsAssigned' = labels
    /\ UNCHANGED <<cleanerVars, passVars, pointVars, peakVars, maxAngle, radii, labels,
                   distancesToNearestLine, pointsPerLine, wordBeforeCounts,
                   pointIdx, countIdxUsed>>

\* one iteration of the elimination loop, lines 136-144: line 141 assigns
\* infinity to the whole array distancesToNearestLine
EliminateLine ==
    /\ pc = "eliminate"
    /\ lineIdx < numLinesFound
    /\ countIdxUsed' = countIdxUsed \cup {lineIdx}
    /\ IF TooFewPoints(pointsPerLine[lineIdx])
       THEN /\ labels' = [p \in DOMAIN labels |->
                            IF labels[p] = lineIdx THEN -1 ELSE labels[p]]
            /\ distancesToNearestLine' =
                  IF \E p \in DOMAIN labels : labels[p] = lineIdx
                  THEN [p \in DOMAIN labels |-> Inf]
                  ELSE distancesToNearestLine
       ELSE UNCHANGED <<labels, distancesToNearestLine>>
    /\ lineIdx' = lineIdx + 1
    /\ UNCHANGED <<cleanerVars, passVars, pointVars, peakVars, maxAngle, radii,
                   pointsPerLine, wordBeforeCounts, pointIdx, pc,
                   labelsAssigned>>

\* return result, line 147
Return ==
    /\ pc = "eliminate"
    /\ lineIdx = numLinesFound
    /\ pc' = "returned"
    /\ UNCHANGED <<cleanerVars, passVars, pointVars, peakVars, maxAngle, radii, labels,
                   distancesToNearestLine, pointsPerLine, wordBeforeCounts,
                   lineIdx, pointIdx, countIdxUsed, labelsAssigned>>

NextClassify ==
    \/ AssignPoint
    \/ NextLine
    \/ EndAssign
    \/ EliminateLine
    \/ Return

\* ------------------------------------------------ claims on classifyPoints

Lines == 0..(numLinesFound - 1)
Points == 1..numPts
LabelledWith(lab, l) == {p \in DOMAIN lab : lab[p] = l}
AssignEnded == pc = "eliminate" /\ lineIdx = 0

\* C1: after every completed point update of the assignment loop, and when
\* that loop has ended (before any elimination), pointsPerLine(l) is the
\* number of points whose label is l, for every line l in 0..L-1.
C1_CountsMatchLabels ==
    (pc = "assign" \/ AssignEnded) =>
        \A l \in Lines : pointsPerLine[l] = Cardinality(LabelledWith(labels, l))

\* a point has moved from line 0 to line 1: one count went down, one up
C1_Witness ==
    /\ pc = "assign"
    /\ numLinesFound = 2
    /\ \E p \in Points : labels[p] = 1 /\ IsFinite(LineDist(0, p))
    /\ \E p \in Points : labels[p] = 0
    /\ pointsPerLine[0] >= 1
    /\ pointsPerLine[1] >= 1

\* C2 (as claimed): in the returned result a labelled point's distance is
\* finite and is its distance to the line it is labelled with, and an
\* unlabelled point's distance is +infinity.
C2_DistanceOfLabelledPoints ==
    pc = "returned" =>
        \A p \in Points :
            /\ labels[p] # -1 =>
                /\ IsFinite(distancesToNearestLine[p])
                /\ labels[p] \in Lines
                /\ distancesToNearestLine[p] = LineDist(labels[p], p)
            /\ labels[p] = -1 => distancesToNearestLine[p] = Inf

\* C3: a point is labelled l in the returned result exactly if it was
\* labelled l when the assignment loop ended and at least minPointsPerLine
\* points were labelled l then; every other point is unassigned (-1).
C3_EliminationEffect ==
    pc = "returned" =>
        \A p \in Points :
            /\ \A l \in Lines :
                labels[p] = l <=>
                    /\ labelsAssigned[p] = l
                    /\ Cardinality(LabelledWith(labelsAssigned, l))
                          >= minPointsPerLine
            /\ labels[p] \in Lines \cup {-1}

\* one line is eliminated and loses its points, another keeps its points
C3_Witness ==
    /\ pc = "returned"
    /\ \E l1, l2 \in Lines :
        /\ LabelledWith(labelsAssigned, l1) # {}
        /\ LabelledWith(labels, l1) = {}
        /\ LabelledWith(labels, l2) # {}

\* C7: when the assignment loop has ended, no line is strictly nearer to a
\* point than its stored distance; a labelled point's distance is the one to
\* its line and no line of smaller index is at that distance; a point is
\* unassigned, at distance +infinity, exactly if no line is at a distance
\* strictly below +infinity.
C7_NearestLineFirstWins ==
    AssignEnded =>
        \A p \in Points :
            /\ \A l \in Lines : ~Lt(LineDist(l, p), distancesToNearestLine[p])
            /\ labels[p] \in Lines =>
                /\ distancesToNearestLine[p] = LineDist(labels[p], p)
                /\ IsFinite(distancesToNearestLine[p])
                /\ \A l \in Lines :
                    l < labels[p] => LineDist(l, p) # LineDist(labels[p], p)
            /\ labels[p] \notin Lines =>
                /\ labels[p] = -1
                /\ distancesToNearestLine[p] = Inf
            /\ labels[p] = -1 <=> \A l \in Lines : ~Lt(LineDist(l, p), Inf)

\* two lines at the same finite distance from a point, which keeps the
\* first; and a point no line is at a finite distance from
C7_Witness ==
    /\ AssignEnded
    /\ numLinesFound = 2
    /\ \E p \in Points :
        /\ IsFinite(LineDist(0, p))
        /\ LineDist(0, p) = LineDist(1, p)
        /\ radii[1] # radii[2]
        /\ labels[p] = 0
    /\ \E p \in Points : labels[p] = -1

\* C8 (as claimed): pointsPerLine is subscripted only with 0..L-1, and
\* nothing is decremented when an unassigned point gets its first line.
C8_CountIndexInRange ==
    /\ countIdxUsed \subseteq Lines
    /\ wordBeforeCounts = 0

SpecClassify == InitClassify /\ [][NextClassify]_vars

====
